---- MODULE Spec2Model ----
(***************************************************************************)
(* Extraction orchestration core of the OCR metadata pipeline:             *)
(*   src/ocr/pipeline/core/advanced_model_manager.py  (AdvancedModelManager)*)
(*   src/ocr/pipeline/core/enhanced_extractor.py      (EnhancedLLMExtractor)*)
(* One AdvancedModelManager and one EnhancedLLMExtractor are modelled; the  *)
(* Ollama backend is the environment.                                       *)
(***************************************************************************)
EXTENDS Integers, Sequences, FiniteSets, TLC

(***************************************************************************)
(* Python floats.  Every float the orchestration core computes is a sum or  *)
(* difference of the literals 0.1 .. 1.0, so it lies in [2^-4, 2) or is an  *)
(* exact difference of two such values.  A double x is held as the pair     *)
(*      [h |-> round(100 x),  e |-> 100 * 2^56 * x - h * 2^56]              *)
(* that is, its nominal value in hundredths and its exact distance from     *)
(* that decimal in units of 1/(100 * 2^56).  Only residues of 2^56 are      *)
(* needed to round, so all numbers stay small.                              *)
(***************************************************************************)

\* number of 2^-56 steps between neighbouring doubles around h/100 + e units
Ulp56(h, e) ==
    IF h > 100 \/ (h = 100 /\ e >= 0) THEN 16
    ELSE IF h > 50 \/ (h = 50 /\ e >= 0) THEN 8
    ELSE IF h > 25 \/ (h = 25 /\ e >= 0) THEN 4
    ELSE IF h >= 13 THEN 2
    ELSE 1

\* IEEE-754 round-to-nearest, ties-to-even, of the exact value (h, e) >= 0;
\* 1536 is 2^56 modulo 3200 (= 200 * 16, the largest rounding modulus used)
Round(h, e) ==
    LET m  == 100 * Ulp56(h, e)
        r  == (h * 1536 + e) % m
        r2 == (h * 1536 + e) % (2 * m)
    IN  IF 2 * r < m THEN [h |-> h, e |-> e - r]
        ELSE IF 2 * r > m THEN [h |-> h, e |-> e + (m - r)]
        ELSE IF r2 = r THEN [h |-> h, e |-> e - r]
        ELSE [h |-> h, e |-> e + (m - r)]

\* the double a Python literal of h hundredths denotes (0.6 is F(60))
F(h) == Round(h, 0)

FLt(a, b) == a.h < b.h \/ (a.h = b.h /\ a.e < b.e)

FLe(a, b) == ~FLt(b, a)

FAdd(a, b) == Round(a.h + b.h, a.e + b.e)

\* abs(a - b)
FAbsDiff(a, b) ==
    IF FLt(a, b) THEN Round(b.h - a.h, b.e - a.e) ELSE Round(a.h - b.h, a.e - b.e)

\* min(a, b) and max(a, b) of Python: the first argument wins unless the
\* second is strictly smaller (larger)
FMin(a, b) == IF FLt(b, a) THEN b ELSE a

FMax(a, b) == IF FLt(a, b) THEN b ELSE a

(***************************************************************************)
(* Enumerations and the model registry                                      *)
(***************************************************************************)

\* TaskType values
Tasks == {"title", "date", "description", "volume_issue"}

\* DocumentType values
DocumentTypes == {"letter", "newsletter", "report", "article", "unknown"}

Priorities == {"speed", "balanced", "accuracy"}

ModelNames == {"llama3.1:8b", "granite3.2-vision", "llama3.1:70b"}

\* _initialize_models: the temperature of each registry entry
InitialTemperature(m) ==
    CASE m = "llama3.1:8b" -> F(10)
      [] m = "granite3.2-vision" -> F(30)
      [] m = "llama3.1:70b" -> F(50)

\* _initialize_models: speed_score and accuracy_score of each entry
SpeedScore(m) ==
    CASE m = "llama3.1:8b" -> 9
      [] m = "granite3.2-vision" -> 7
      [] m = "llama3.1:70b" -> 4

AccuracyScore(m) ==
    CASE m = "llama3.1:8b" -> 7
      [] m = "granite3.2-vision" -> 8
      [] m = "llama3.1:70b" -> 10

(***************************************************************************)
(* Inputs: sample documents and sample backend replies.  A document is      *)
(* held by what the code reads of it: the hash key of its first 500         *)
(* lower-cased characters, the number of distinct letter / newsletter /     *)
(* report patterns its full text matches, and its estimated OCR quality in  *)
(* hundredths; iso_date is the YYYY-MM-DD date its text holds.  Every       *)
(* sample document quotes the lines that the sample replies marked src      *)
(* repeat.  Documents "note" and "note_tail" share their first 500          *)
(* characters; "note_tail" carries newsletter markers after them.           *)
(***************************************************************************)
Documents ==
    { [name |-> "letter",     prefix |-> 1, letter |-> 3, newsletter |-> 2, report |-> 0, quality |-> 97, iso_date |-> "2021-03-05"],
      [name |-> "newsletter", prefix |-> 2, letter |-> 0, newsletter |-> 5, report |-> 0, quality |-> 97, iso_date |-> "2021-03-05"],
      [name |-> "report",     prefix |-> 3, letter |-> 0, newsletter |-> 0, report |-> 4, quality |-> 98, iso_date |-> "2021-03-05"],
      [name |-> "note",       prefix |-> 4, letter |-> 0, newsletter |-> 0, report |-> 0, quality |-> 99, iso_date |-> "2021-03-05"],
      [name |-> "note_tail",  prefix |-> 4, letter |-> 0, newsletter |-> 3, report |-> 0, quality |-> 99, iso_date |-> "2021-03-05"],
      [name |-> "garbled",    prefix |-> 5, letter |-> 0, newsletter |-> 1, report |-> 0, quality |-> 0, iso_date |-> "2021-03-05"] }

\* sample documents of the fan-out
ParallelDocuments == {d \in Documents : d.name = "letter"}

\* priority of the fan-out: the default of extract_parallel
ParallelPriorities == {"balanced"}

Prefixes == {d.prefix : d \in Documents}

\* number of entries of letter_patterns, newsletter_patterns, report_patterns
NumLetterPatterns == 7

NumNewsletterPatterns == 7

NumReportPatterns == 6

\* documents handed to the classifier on its own: every combination of the
\* numbers of letter, newsletter and report patterns a text can match, under
\* either of two hash keys
ClassifierDocuments ==
    [name : {"sample"}, prefix : {1, 2}, letter : 0..NumLetterPatterns,
     newsletter : 0..NumNewsletterPatterns, report : 0..NumReportPatterns,
     quality : {97}, iso_date : {"2021-03-05"}]

\* A reply text, held by what _estimate_confidence and the consensus
\* tie-break read of it: its length, whether it is empty or a "no answer"
\* literal, whether it starts with YYYY-MM-DD / with four digits, whether its
\* first character is upper case, its number of periods, whether it holds
\* one of 'volume', 'vol', 'issue', 'no', and whether its lower-cased form
\* occurs in the joined source text (src).
Text(s, n, na, iso, year, upper, periods, keyword, src) ==
    [s |-> s, len |-> n, noAnswer |-> na, iso |-> iso, year |-> year,
     upper |-> upper, periods |-> periods, keyword |-> keyword, src |-> src]

EmptyText == Text("", 0, TRUE, FALSE, FALSE, FALSE, 0, FALSE, TRUE)

Texts ==
    { EmptyText,
      Text("N/A", 3, TRUE, FALSE, FALSE, TRUE, 0, FALSE, FALSE),
      Text("unclear", 7, FALSE, FALSE, FALSE, FALSE, 0, FALSE, FALSE),
      Text("1986", 4, FALSE, FALSE, TRUE, FALSE, 0, FALSE, TRUE),
      Text("2021-03-05", 10, FALSE, TRUE, TRUE, FALSE, 0, FALSE, TRUE),
      Text("Bulletin", 8, FALSE, FALSE, FALSE, TRUE, 0, FALSE, TRUE),
      Text("the bulletin of the task force", 30, FALSE, FALSE, FALSE, FALSE, 0, FALSE, FALSE),
      Text("Central American Task Force meeting notes", 41, FALSE, FALSE, FALSE, TRUE, 0, TRUE, TRUE),
      Text("Issue 12", 8, FALSE, FALSE, FALSE, TRUE, 0, TRUE, FALSE),
      Text("Summary of the annual meeting. It lists the votes taken. It names the new officers.",
           83, FALSE, FALSE, FALSE, TRUE, 3, FALSE, FALSE) }

(***************************************************************************)
(* AdvancedModelManager: pure parts                                         *)
(***************************************************************************)

\* faulty variant: the greatest score that reaches 2 decides, the fixed order
\* only breaking ties between equal scores
ScoreDocumentType_ByMagnitude(d) ==
    IF d.letter >= 2 /\ d.letter >= d.newsletter /\ d.letter >= d.report THEN "letter"
    ELSE IF d.newsletter >= 2 /\ d.newsletter >= d.report THEN "newsletter"
    ELSE IF d.report >= 2 THEN "report"
    ELSE IF d.newsletter >= 2 THEN "newsletter"
    ELSE IF d.letter >= 2 THEN "letter"
    ELSE "unknown"

\* detect_document_type, the scoring of a text not found in the cache
ScoreDocumentType(d) ==
    IF d.letter >= 2 THEN "letter"
    ELSE IF d.newsletter >= 2 THEN "newsletter"
    ELSE IF d.report >= 2 THEN "report"
    ELSE "unknown"

\* task_preferences of select_optimal_model
TaskPreferences(task) ==
    CASE task = "date" -> <<"llama3.1:8b", "granite3.2-vision">>
      [] task = "title" -> <<"granite3.2-vision", "llama3.1:8b">>
      [] task = "description" -> <<"llama3.1:70b", "granite3.2-vision">>
      [] task = "volume_issue" -> <<"llama3.1:8b", "granite3.2-vision">>

\* faulty variant: balanced ranks by accuracy alone
PriorityKey_BalancedAsAccuracy(priority, m) ==
    IF priority = "speed" THEN SpeedScore(m) ELSE AccuracyScore(m)

\* the sort key of the priority-based selection; the balanced key
\* (speed + accuracy) / 2 is held doubled, halving being exact and monotone
PriorityKey(priority, m) ==
    IF priority = "speed" THEN SpeedScore(m)
    ELSE IF priority = "accuracy" THEN AccuracyScore(m)
    ELSE SpeedScore(m) + AccuracyScore(m)

\* Python's max(list, key=...): the first element of the greatest key
MaxByKey(list, priority) ==
    list[CHOOSE i \in 1..Len(list) :
            /\ \A j \in 1..Len(list) : PriorityKey(priority, list[j]) <= PriorityKey(priority, list[i])
            /\ \A j \in 1..(i - 1) : PriorityKey(priority, list[j]) < PriorityKey(priority, list[i])]

select_optimal_model(task, doc_type, text_quality, priority) ==
    IF doc_type = "newsletter" /\ task \in {"title", "volume_issue"} THEN "granite3.2-vision"
    ELSE IF doc_type = "letter" /\ task = "date" THEN "llama3.1:8b"
    ELSE IF FLt(text_quality, F(70)) THEN "granite3.2-vision"
    ELSE MaxByKey(TaskPreferences(task), priority)

\* faulty variant: the temperature is set to the bound instead of clamped
AdjustedTemperature_Assign(task, temperature) ==
    IF task \in {"date", "volume_issue"} THEN F(20)
    ELSE IF task = "description" THEN F(50)
    ELSE temperature

\* get_model_config: the temperature it computes from the entry's current one
AdjustedTemperature(task, temperature) ==
    IF task \in {"date", "volume_issue"} THEN FMin(F(20), temperature)
    ELSE IF task = "description" THEN FMax(F(50), temperature)
    ELSE temperature

\* faulty variant: the unconditional floor is 0.5 instead of 0.6
should_use_two_pass_LowFloor(task, confidence, doc_type) ==
    IF FLt(confidence, F(50)) THEN TRUE
    ELSE IF doc_type \in {"newsletter", "report"} /\ FLt(confidence, F(80)) THEN TRUE
    ELSE IF task = "description" /\ FLt(confidence, F(75)) THEN TRUE
    ELSE FALSE

\* faulty variant: reports are not treated as complex documents
should_use_two_pass_NoReport(task, confidence, doc_type) ==
    IF FLt(confidence, F(60)) THEN TRUE
    ELSE IF doc_type \in {"newsletter"} /\ FLt(confidence, F(80)) THEN TRUE
    ELSE IF task = "description" /\ FLt(confidence, F(75)) THEN TRUE
    ELSE FALSE

should_use_two_pass(task, confidence, doc_type) ==
    IF FLt(confidence, F(60)) THEN TRUE
    ELSE IF doc_type \in {"newsletter", "report"} /\ FLt(confidence, F(80)) THEN TRUE
    ELSE IF task = "description" /\ FLt(confidence, F(75)) THEN TRUE
    ELSE FALSE

(***************************************************************************)
(* EnhancedLLMExtractor: pure parts                                         *)
(***************************************************************************)

\* faulty variant: the base confidence is 0.4
estimate_confidence_LowBase(result, task) ==
    IF result.len = 0 \/ result.noAnswer THEN F(10)
    ELSE
      LET base == F(40)
          c1 == CASE task = "date" ->
                       IF result.iso THEN FAdd(base, F(40))
                       ELSE IF result.year THEN FAdd(base, F(30))
                       ELSE base
                  [] task = "title" ->
                       LET a == IF 10 <= result.len /\ result.len <= 100
                                THEN FAdd(base, F(30)) ELSE base
                       IN  IF result.upper THEN FAdd(a, F(10)) ELSE a
                  [] task = "description" ->
                       LET a == IF 50 <= result.len /\ result.len <= 500
                                THEN FAdd(base, F(30)) ELSE base
                       IN  IF result.periods >= 2 THEN FAdd(a, F(10)) ELSE a
                  [] task = "volume_issue" ->
                       IF result.keyword THEN FAdd(base, F(40)) ELSE base
          c2 == IF result.src THEN FAdd(c1, F(10)) ELSE c1
      IN  FMin(F(100), c2)

\* _estimate_confidence
estimate_confidence(result, task) ==
    IF result.len = 0 \/ result.noAnswer THEN F(10)
    ELSE
      LET base == F(50)
          c1 == CASE task = "date" ->
                       IF result.iso THEN FAdd(base, F(40))
                       ELSE IF result.year THEN FAdd(base, F(30))
                       ELSE base
                  [] task = "title" ->
                       LET a == IF 10 <= result.len /\ result.len <= 100
                                THEN FAdd(base, F(30)) ELSE base
                       IN  IF result.upper THEN FAdd(a, F(10)) ELSE a
                  [] task = "description" ->
                       LET a == IF 50 <= result.len /\ result.len <= 500
                                THEN FAdd(base, F(30)) ELSE base
                       IN  IF result.periods >= 2 THEN FAdd(a, F(10)) ELSE a
                  [] task = "volume_issue" ->
                       IF result.keyword THEN FAdd(base, F(40)) ELSE base
          c2 == IF result.src THEN FAdd(c1, F(10)) ELSE c1
      IN  FMin(F(100), c2)

(***************************************************************************)
(* Strings as the estimator reads them: a string is the sequence of its     *)
(* characters.                                                              *)
(***************************************************************************)
UpperLetters == <<"A", "B", "C", "D", "E", "F", "G", "H", "I", "J", "K", "L", "M", "N", "O", "P", "Q", "R", "S", "T",
                  "U", "V", "W", "X", "Y", "Z">>

LowerLetters == <<"a", "b", "c", "d", "e", "f", "g", "h", "i", "j", "k", "l", "m", "n", "o", "p", "q", "r", "s", "t",
                  "u", "v", "w", "x", "y", "z">>

Digits == {"0", "1", "2", "3", "4", "5", "6", "7", "8", "9"}

\* str.lower() of one character and of a string
LowerChar(c) ==
    IF \E i \in 1..Len(UpperLetters) : UpperLetters[i] = c
    THEN LowerLetters[CHOOSE i \in 1..Len(UpperLetters) : UpperLetters[i] = c]
    ELSE c

Lower(cs) == [i \in 1..Len(cs) |-> LowerChar(cs[i])]

\* sub in cs
Contains(cs, sub) ==
    \E i \in 0..(Len(cs) - Len(sub)) : SubSeq(cs, i + 1, i + Len(sub)) = sub

\* the "no answer" literals of _estimate_confidence
NoAnswerLiterals == { <<"n", "o">>, <<"n", "o", "n", "e">>,
                      <<"n", "o", "t", " ", "f", "o", "u", "n", "d">>, <<"n", "/", "a">> }

\* faulty variant: the literals are compared without lower-casing the result
IsNoAnswer_CaseSensitive(result) == result = <<>> \/ result \in NoAnswerLiterals

\* not result or result.lower() in ['no', 'none', 'not found', 'n/a']
IsNoAnswer(result) == result = <<>> \/ Lower(result) \in NoAnswerLiterals

\* re.match(r'\d{4}-\d{2}-\d{2}', result)
MatchesIsoDate(result) ==
    /\ Len(result) >= 10
    /\ \A i \in {1, 2, 3, 4, 6, 7, 9, 10} : result[i] \in Digits
    /\ result[5] = "-"
    /\ result[8] = "-"

\* re.match(r'\d{4}', result)
MatchesYear(result) ==
    /\ Len(result) >= 4
    /\ \A i \in 1..4 : result[i] \in Digits

\* result.count('.')
CountPeriods(result) == Cardinality({i \in 1..Len(result) : result[i] = "."})

\* any(word in result.lower() for word in ['volume', 'vol', 'issue', 'no'])
HasVolumeKeyword(result) ==
    \E word \in { <<"v", "o", "l", "u", "m", "e">>, <<"v", "o", "l">>, <<"i", "s", "s", "u", "e">>, <<"n", "o">> } : Contains(Lower(result), word)

\* what _estimate_confidence reads of result, given the joined source text
Features(result, full_text) ==
    Text(result, Len(result), IsNoAnswer(result), MatchesIsoDate(result), MatchesYear(result),
         result # <<>> /\ (\E i \in 1..Len(UpperLetters) : UpperLetters[i] = result[1]),
         CountPeriods(result), HasVolumeKeyword(result),
         Contains(Lower(full_text), Lower(result)))

\* sample results handed to the estimator on its own: the "no answer"
\* literals in several letter cases, near misses of them, and other answers
RawTexts ==
    { <<>>,
      <<"n", "o">>,
      <<"N", "O">>,
      <<"N", "o">>,
      <<"n", "o", "n", "e">>,
      <<"N", "o", "n", "e">>,
      <<"N", "O", "N", "E">>,
      <<"n", "o", "t", " ", "f", "o", "u", "n", "d">>,
      <<"N", "o", "t", " ", "F", "o", "u", "n", "d">>,
      <<"N", "O", "T", " ", "F", "O", "U", "N", "D">>,
      <<"n", "/", "a">>,
      <<"N", "/", "A">>,
      <<"N", "/", "a">>,
      <<"n", "o", "p", "e">>,
      <<"n", "o", ".">>,
      <<"n", "/", "a", " ">>,
      <<"1", "9", "8", "6">>,
      <<"I", "s", "s", "u", "e", " ", "1", "2">>,
      <<"2", "0", "2", "1", "-", "0", "3", "-", "0", "5">>,
      <<"B", "u", "l", "l", "e", "t", "i", "n", " ", "N", "o", ".", " ", "4">>,
      <<"N", "o", "t", "e", "s", " ", "o", "f", " ", "t", "h", "e", " ", "m", "e", "e", "t", "i", "n", "g", ".", " ", "V", "o", "t", "e", "s", " ", "w", "e", "r", "e", " ", "t", "a", "k", "e", "n", ".", " ", "O", "f", "f", "i", "c", "e", "r", "s", " ", "n", "a", "m", "e", "d", ".">> }

\* sample source texts (the joined text_segments)
SourceTexts ==
    { <<>>,
      <<"n", "o", " ", "d", "a", "t", "e", " ", "f", "o", "u", "n", "d">>,
      <<"i", "s", "s", "u", "e", " ", "1", "2", " ", "o", "f", " ", "2", "0", "2", "1", "-", "0", "3", "-", "0", "5", ",", " ", "b", "u", "l", "l", "e", "t", "i", "n", " ", "n", "o", ".", " ", "4", ".", " ", "n", "o", "t", "e", "s", " ", "o", "f", " ", "t", "h", "e", " ", "m", "e", "e", "t", "i", "n", "g", ".", " ", "v", "o", "t", "e", "s", " ", "w", "e", "r", "e", " ", "t", "a", "k", "e", "n", ".", " ", "o", "f", "f", "i", "c", "e", "r", "s", " ", "n", "a", "m", "e", "d", ".">> }

\* ExtractionResult(value, confidence, model_used, processing_time)
ExtractionResult(value, confidence, model_used, processing_time) ==
    [value |-> value, confidence |-> confidence, model_used |-> model_used,
     processing_time |-> processing_time]

\* faulty variant: every model but the fast one steps up to the largest
SecondModel_StepUp(first_model) ==
    IF first_model = "llama3.1:8b" THEN "granite3.2-vision" ELSE "llama3.1:70b"

\* _two_pass_extraction: the model of the second pass
SecondModel(first_model) ==
    IF first_model = "llama3.1:8b" THEN "granite3.2-vision"
    ELSE IF first_model = "granite3.2-vision" THEN "llama3.1:70b"
    ELSE "granite3.2-vision"

\* faulty variant: a tie goes to the second pass (>= instead of >)
ChooseBest_TieToSecond(first_result, second_result) ==
    IF FLe(first_result.confidence, second_result.confidence)
    THEN second_result ELSE first_result

\* faulty variant: the second pass always wins
ChooseBest_AlwaysSecond(first_result, second_result) == second_result

\* _two_pass_extraction: the result kept
ChooseBest(first_result, second_result) ==
    IF FLt(first_result.confidence, second_result.confidence)
    THEN second_result ELSE first_result

\* extract_with_consensus: models[:2]
ConsensusModels == <<"llama3.1:8b", "granite3.2-vision">>

\* Python's max(results, key=lambda r: r.confidence): index of the first maximum
MaxConfidenceIndex(results) ==
    CHOOSE i \in 1..Len(results) :
        /\ \A j \in 1..Len(results) : FLe(results[j].confidence, results[i].confidence)
        /\ \A j \in 1..(i - 1) : FLt(results[j].confidence, results[i].confidence)

\* Python's min(results, key=lambda r: len(r.value)): index of the first minimum
MinLengthIndex(results) ==
    CHOOSE i \in 1..Len(results) :
        /\ \A j \in 1..Len(results) : results[i].value.len <= results[j].value.len
        /\ \A j \in 1..(i - 1) : results[i].value.len < results[j].value.len

\* faulty variant: no tie-break, the highest confidence always wins
ConsensusPick_NoTieBreak(task, results) == MaxConfidenceIndex(results)

\* extract_with_consensus: the index of best_result in results
ConsensusPick(task, results) ==
    IF Len(results) > 1
       /\ FLt(FAbsDiff(results[1].confidence, results[2].confidence), F(20))
       /\ results[1].value # results[2].value
       /\ task = "title"
    THEN MinLengthIndex(results)
    ELSE MaxConfidenceIndex(results)

\* faulty variant: the winning result keeps its bare model name
ConsensusTag_Bare(model_used) == model_used

\* the consensus tag put on best_result.model_used
ConsensusTag(model_used) == "consensus(" \o model_used \o ")"

(***************************************************************************)
(* Prompts.  A prompt is held as the sequence of the non-empty strings it   *)
(* is concatenated from; the empty prompt is the empty sequence.            *)
(***************************************************************************)

\* base_prompts of create_enhanced_prompt, "" for a pair it has no entry for:
\* only Date and Title have entries, and there is none for Article or Unknown
BasePrompt(task, doc_type) ==
    CASE task = "date" /\ doc_type = "letter" ->
             "Extract the date from this letter. Look for dates in headers, signatures, or explicit date mentions.\nFocus on: letterhead dates, signature dates, \"Dear [Name]\" context dates.\nReturn in YYYY-MM-DD format if full date available, or YYYY if only year."
      [] task = "date" /\ doc_type = "newsletter" ->
             "Extract the publication date from this newsletter.\nLook for: issue dates, publication information, volume/issue headers.\nReturn in YYYY-MM-DD format if available, or YYYY if only year."
      [] task = "date" /\ doc_type = "report" ->
             "Extract the report date or publication date.\nLook for: cover page dates, \"as of\" dates, publication information.\nReturn in YYYY-MM-DD format if available, or YYYY if only year."
      [] task = "title" /\ doc_type = "letter" ->
             "Extract the main subject or title of this letter.\nLook for: subject lines, main topic in opening paragraph, letter purpose.\nReturn a clear, concise title that captures the letter's main purpose."
      [] task = "title" /\ doc_type = "newsletter" ->
             "Extract the newsletter title or main headline.\nLook for: newsletter name, main article headline, publication title.\nReturn the primary title, not article subtitles."
      [] task = "title" /\ doc_type = "report" ->
             "Extract the report title or main heading.\nLook for: cover page title, main heading, report subject.\nReturn the primary report title."
      [] OTHER -> ""

\* the built-in examples of _load_training_examples
TrainingExamples(task) ==
    CASE task = "date" ->
             << [text |-> "6 January 1986. Dear Friends,", result |-> "1986-01-06"],
                [text |-> "November 15-17, 1985 meeting", result |-> "1985-11-15"],
                [text |-> "Published in 1984", result |-> "1984"] >>
      [] task = "title" ->
             << [text |-> "Central American Task Force Newsletter", result |-> "Central American Task Force Newsletter"],
                [text |-> "Dear Members, Re: Annual General Meeting", result |-> "Annual General Meeting Notice"],
                [text |-> "Blessings of peace and courage for the new year!", result |-> "New Year Blessings Message"] >>
      [] task = "description" ->
             << [text |-> "The Annual General Meeting took place...", result |-> "Summary of Annual General Meeting proceedings and decisions"] >>
      [] task = "volume_issue" ->
             << [text |-> "Volume 3, Issue 1", result |-> "Volume 3, Issue 1"],
                [text |-> "Vol. 2 No. 4", result |-> "Volume 2, Issue 4"],
                [text |-> "Newsletter #12", result |-> "Issue 12"] >>

\* a string as a prompt: nothing is appended for the empty string
Pieces(str) == IF str = "" THEN <<>> ELSE <<str>>

\* f"Text: {example.get('text', '')}\nExtraction: {example.get('result', '')}\n\n"
ExamplePiece(example) ==
    "Text: " \o example.text \o "\nExtraction: " \o example.result \o "\n\n"

\* model_manager.create_enhanced_prompt(task, doc_type, text_segments, examples);
\* examples is <<>> for None or an empty list
create_enhanced_prompt(task, doc_type, text_segments, examples) ==
    LET shown == IF Len(examples) < 3 THEN Len(examples) ELSE 3
    IN  Pieces(BasePrompt(task, doc_type))
        \o (IF examples # <<>>
            THEN <<"\n\nExamples:\n">> \o [i \in 1..shown |-> ExamplePiece(examples[i])]
            ELSE <<>>)
        \o (IF task = "description"
            THEN <<"\n\nThink step by step:\n1. Identify the main topic\n2. Find key details\n3. Summarize concisely">>
            ELSE <<>>)

\* ' '.join(text_segments), segment by segment
RECURSIVE Join(_)
Join(text_segments) ==
    IF text_segments = <<>> THEN <<>>
    ELSE IF Len(text_segments) = 1 THEN text_segments
    ELSE <<Head(text_segments), " ">> \o Join(Tail(text_segments))

\* faulty variant: the analysed text is placed before the instruction
ExtractionPrompt_TextFirst(task, doc_type, text_segments) ==
    <<"\n\nText to analyze:\n">> \o Join(text_segments)
        \o create_enhanced_prompt(task, doc_type, text_segments, TrainingExamples(task))
        \o <<"\n\n", "Extraction:">>

\* _extract_with_model, the prompt it builds and hands to _make_ollama_request
ExtractionPrompt(task, doc_type, text_segments) ==
    create_enhanced_prompt(task, doc_type, text_segments, TrainingExamples(task))
        \o <<"\n\nText to analyze:\n">> \o Join(text_segments)
        \o <<"\n\n", "Extraction:">>

\* sample text_segments
SampleSegments ==
    { <<>>,
      <<"Bulletin">>,
      <<"Dear Friends,", "2021-03-05", "Sincerely yours">>,
      <<"Volume 3, Issue 1", "Extraction:", "Report of findings">> }

(***************************************************************************)
(* The backend.  A generate request ends in a reply text, in a transport    *)
(* failure (requests.exceptions.RequestException: unreachable, timeout,     *)
(* non-2xx status) or in any other exception (a body that is not the        *)
(* expected JSON object), after some latency.                               *)
(***************************************************************************)

\* sample latencies of a request, in clock ticks
Latencies == {1, 2}

\* the fan-out interleaves four pipelines: its sample replies are one text
\* that scores high for Date and Title and medium for the others, the
\* transport failure and the unexpected exception, all of one latency
ParallelTexts == {x \in Texts : x.s = "2021-03-05"}

ReplyTexts(op) == IF op = "parallel" THEN ParallelTexts ELSE Texts

ReplyLatencies(op) == IF op = "parallel" THEN {1} ELSE Latencies

Outcomes(op) ==
    [kind : {"text"}, text : ReplyTexts(op)]
        \cup {[kind |-> "failed", text |-> EmptyText], [kind |-> "raise", text |-> EmptyText]}

\* faulty variant: a failed request returns the error message as its text
make_ollama_request_ErrorText(outcome) ==
    IF outcome.kind = "text" THEN outcome.text
    ELSE Text("request failed", 14, FALSE, FALSE, FALSE, FALSE, 0, FALSE, FALSE)

\* _make_ollama_request: the text returned for an outcome that does not raise
make_ollama_request(outcome) ==
    IF outcome.kind = "text" THEN outcome.text ELSE EmptyText

(***************************************************************************)
(* State                                                                    *)
(***************************************************************************)
VARIABLES
    models,               \* AdvancedModelManager.models: model name -> temperature
    document_type_cache,  \* AdvancedModelManager.document_type_cache: key -> type
    call,                 \* the top-level call in progress and its arguments
    ncalls,               \* top-level calls made so far
    worker,               \* per task: the position and locals of its pipeline
    requests,             \* per task: the generate requests issued in this call
    parallel_results,     \* extract_parallel: the results dict being collected
    consensus_results,    \* extract_with_consensus: the results list
    prior,                \* outcome of the completed call that is being repeated
    unit                  \* the latest direct call of one method and what it returned

vars == <<models, document_type_cache, call, ncalls, worker, requests,
          parallel_results, consensus_results, prior, unit>>

\* greatest number of top-level calls made on one extractor
MaxCalls == 2

NoResult == [value |-> EmptyText, confidence |-> F(0), model_used |-> "none", processing_time |-> 0]

\* ExtractionResult("", 0.0, "error", 0.0) of extract_parallel
ErrorResult == ExtractionResult(EmptyText, F(0), "error", 0)

\* ExtractionResult("", 0.0, "consensus_failed", 0.0)
ConsensusFailed == ExtractionResult(EmptyText, F(0), "consensus_failed", 0)

IdleCall == [op |-> "idle", task |-> "none", doc |-> CHOOSE d \in Documents : d.name = "letter",
             priority |-> "balanced"]

IdleWorker == [pc |-> "idle", doc_type |-> "none", model_name |-> "none", pass |-> 0,
               first_result |-> NoResult, second_result |-> NoResult, ret |-> NoResult]

NoPrior == [task |-> "none", result |-> NoResult]

\* no method has been called directly
NoUnit == [op |-> "none"]

Init ==
    /\ models = [m \in ModelNames |-> InitialTemperature(m)]
    /\ document_type_cache = [k \in Prefixes |-> "none"]
    /\ call = IdleCall
    /\ ncalls = 0
    /\ worker = [t \in Tasks |-> IdleWorker]
    /\ requests = [t \in Tasks |-> <<>>]
    /\ parallel_results = [t \in Tasks |-> NoResult]
    /\ consensus_results = <<>>
    /\ prior = NoPrior
    /\ unit = NoUnit

(***************************************************************************)
(* Steps of one pipeline                                                    *)
(***************************************************************************)

\* detect_document_type: the cached type of the text's key, else its scoring
detect_document_type(cache, d) ==
    IF cache[d.prefix] # "none" THEN cache[d.prefix] ELSE ScoreDocumentType(d)

\* get_model_config: the registry after the call
get_model_config(registry, model_name, task) ==
    [registry EXCEPT ![model_name] = AdjustedTemperature(task, registry[model_name])]

\* extract_single, up to the first pass: classify, estimate quality, select
Begin(t) ==
    /\ call.op \in {"single", "parallel"}
    /\ worker[t].pc = "begin"
    /\ LET dt == detect_document_type(document_type_cache, call.doc)
       IN  /\ document_type_cache' = [document_type_cache EXCEPT ![call.doc.prefix] = dt]
           /\ worker' = [worker EXCEPT ![t] =
                  [@ EXCEPT !.pc = "config", !.doc_type = dt, !.pass = 1,
                            !.model_name = select_optimal_model(t, dt, F(call.doc.quality), call.priority)]]
    /\ UNCHANGED <<unit, models, call, ncalls, requests, parallel_results, consensus_results, prior>>

\* _extract_with_model: config = self.model_manager.get_model_config(model_name, task)
GetConfig(t) ==
    /\ worker[t].pc = "config"
    /\ models' = get_model_config(models, worker[t].model_name, t)
    /\ worker' = [worker EXCEPT ![t].pc = "send"]
    /\ UNCHANGED <<unit, document_type_cache, call, ncalls, requests, parallel_results,
                   consensus_results, prior>>

\* _make_ollama_request: the payload is built from the registry entry that
\* config refers to, and posted
Send(t) ==
    /\ worker[t].pc = "send"
    /\ requests' = [requests EXCEPT ![t] =
           Append(@, [model |-> worker[t].model_name, temperature |-> models[worker[t].model_name]])]
    /\ worker' = [worker EXCEPT ![t].pc = "wait"]
    /\ UNCHANGED <<unit, models, document_type_cache, call, ncalls, parallel_results,
                   consensus_results, prior>>

\* faulty variant: a second pass of low confidence escalates once more
AfterRequest_Reescalate(t, w, outcome, latency) ==
    IF outcome.kind = "raise" THEN [w EXCEPT !.pc = "raised"]
    ELSE
      LET text == make_ollama_request(outcome)
          r == ExtractionResult(text, estimate_confidence(text, t), w.model_name, latency)
      IN  IF w.pass = 1
          THEN IF should_use_two_pass(t, r.confidence, w.doc_type)
               THEN [w EXCEPT !.pc = "config", !.pass = 2, !.first_result = r,
                              !.model_name = SecondModel(r.model_used)]
               ELSE [w EXCEPT !.pc = "done", !.first_result = r, !.ret = r]
          ELSE IF w.pass = 2 /\ should_use_two_pass(t, r.confidence, w.doc_type)
               THEN [w EXCEPT !.pc = "config", !.pass = 3, !.second_result = r,
                              !.model_name = SecondModel(r.model_used)]
               ELSE [w EXCEPT !.pc = "done", !.second_result = r,
                              !.ret = ChooseBest(w.first_result, r)]

\* the rest of extract_single once the request of the current pass has ended
AfterRequest(t, w, outcome, latency) ==
    IF outcome.kind = "raise" THEN [w EXCEPT !.pc = "raised"]
    ELSE
      LET text == make_ollama_request(outcome)
          r == ExtractionResult(text, estimate_confidence(text, t), w.model_name, latency)
      IN  IF w.pass = 1
          THEN IF should_use_two_pass(t, r.confidence, w.doc_type)
               THEN [w EXCEPT !.pc = "config", !.pass = 2, !.first_result = r,
                              !.model_name = SecondModel(r.model_used)]
               ELSE [w EXCEPT !.pc = "done", !.first_result = r, !.ret = r]
          ELSE [w EXCEPT !.pc = "done", !.second_result = r,
                         !.ret = ChooseBest(w.first_result, r)]

Receive(t) ==
    /\ call.op \in {"single", "parallel"}
    /\ worker[t].pc = "wait"
    /\ \E outcome \in Outcomes(call.op), latency \in ReplyLatencies(call.op) :
           worker' = [worker EXCEPT ![t] = AfterRequest(t, @, outcome, latency)]
    /\ UNCHANGED <<unit, models, document_type_cache, call, ncalls, requests, parallel_results,
                   consensus_results, prior>>

(***************************************************************************)
(* extract_single called on its own, one call after the other               *)
(***************************************************************************)
CallSingle(t, d, p) ==
    /\ call.op = "idle"
    /\ ncalls < MaxCalls
    /\ call' = [op |-> "single", task |-> t, doc |-> d, priority |-> p]
    /\ ncalls' = ncalls + 1
    /\ worker' = [worker EXCEPT ![t] = [IdleWorker EXCEPT !.pc = "begin"]]
    /\ requests' = [x \in Tasks |-> <<>>]
    /\ prior' = NoPrior
    /\ UNCHANGED <<unit, models, document_type_cache, parallel_results, consensus_results>>

ReturnSingle ==
    /\ call.op = "single"
    /\ worker[call.task].pc \in {"done", "raised"}
    /\ call' = IdleCall
    /\ worker' = [t \in Tasks |-> IdleWorker]
    /\ UNCHANGED <<unit, models, document_type_cache, ncalls, requests, parallel_results,
                   consensus_results, prior>>

Next ==
    \/ \E t \in Tasks, d \in Documents, p \in Priorities : CallSingle(t, d, p)
    \/ \E t \in Tasks : Begin(t)
    \/ \E t \in Tasks : GetConfig(t)
    \/ \E t \in Tasks : Send(t)
    \/ \E t \in Tasks : Receive(t)
    \/ ReturnSingle

Spec == Init /\ [][Next]_vars

(***************************************************************************)
(* detect_document_type as the four threads of one fan-out run it, step by  *)
(* step: the cache test, the scoring of a text not found, the store.  The   *)
(* dictionary test, read and store are each atomic.                         *)
(***************************************************************************)
CallDetectParallel(d) ==
    /\ call.op = "idle"
    /\ ncalls < MaxCalls
    /\ call' = [op |-> "detect_parallel", task |-> "none", doc |-> d, priority |-> "balanced"]
    /\ ncalls' = ncalls + 1
    /\ worker' = [t \in Tasks |-> [IdleWorker EXCEPT !.pc = "lookup"]]
    /\ UNCHANGED <<unit, models, document_type_cache, requests, parallel_results,
                   consensus_results, prior>>

\* faulty variant: a hit returns the default type
LookupHit_Default(cache, d) == "unknown"

\* return self.document_type_cache[text_hash]
LookupHit(cache, d) == cache[d.prefix]

\* if text_hash in self.document_type_cache: return the entry; otherwise
\* score the text into the local doc_type
DetectLookup(t) ==
    /\ call.op = "detect_parallel"
    /\ worker[t].pc = "lookup"
    /\ worker' = [worker EXCEPT ![t] =
           IF document_type_cache[call.doc.prefix] # "none"
           THEN [@ EXCEPT !.pc = "done", !.doc_type = LookupHit(document_type_cache, call.doc)]
           ELSE [@ EXCEPT !.pc = "store", !.doc_type = ScoreDocumentType(call.doc)]]
    /\ UNCHANGED <<unit, models, document_type_cache, call, ncalls, requests, parallel_results,
                   consensus_results, prior>>

\* self.document_type_cache[text_hash] = doc_type; return doc_type
DetectStore(t) ==
    /\ call.op = "detect_parallel"
    /\ worker[t].pc = "store"
    /\ document_type_cache' = [document_type_cache EXCEPT ![call.doc.prefix] = worker[t].doc_type]
    /\ worker' = [worker EXCEPT ![t].pc = "done"]
    /\ UNCHANGED <<unit, models, call, ncalls, requests, parallel_results,
                   consensus_results, prior>>

\* the four threads have classified the text
ReturnDetect ==
    /\ call.op = "detect_parallel"
    /\ \A t \in Tasks : worker[t].pc = "done"
    /\ call' = IdleCall
    /\ worker' = [t \in Tasks |-> IdleWorker]
    /\ UNCHANGED <<unit, models, document_type_cache, ncalls, requests, parallel_results,
                   consensus_results, prior>>

NextDetect ==
    \/ \E d \in Documents : CallDetectParallel(d)
    \/ \E t \in Tasks : DetectLookup(t)
    \/ \E t \in Tasks : DetectStore(t)
    \/ ReturnDetect

SpecDetect == Init /\ [][NextDetect]_vars

(***************************************************************************)
(* extract_single against a backend that fails on every request            *)
(***************************************************************************)

\* the request of the current pass ends in a transport failure
ReceiveFailed(t) ==
    /\ call.op = "single"
    /\ worker[t].pc = "wait"
    /\ \E latency \in Latencies :
           worker' = [worker EXCEPT ![t] =
                         AfterRequest(t, @, [kind |-> "failed", text |-> EmptyText], latency)]
    /\ UNCHANGED <<unit, models, document_type_cache, call, ncalls, requests, parallel_results,
                   consensus_results, prior>>

NextFailing ==
    \/ \E t \in Tasks, d \in Documents, p \in Priorities : CallSingle(t, d, p)
    \/ \E t \in Tasks : Begin(t)
    \/ \E t \in Tasks : GetConfig(t)
    \/ \E t \in Tasks : Send(t)
    \/ \E t \in Tasks : ReceiveFailed(t)
    \/ ReturnSingle

SpecFailing == Init /\ [][NextFailing]_vars

(***************************************************************************)
(* extract_parallel: four pipelines on a pool of four threads, collected    *)
(* as they complete                                                         *)
(***************************************************************************)
CallParallel(d, p) ==
    /\ call.op = "idle"
    /\ ncalls = 0
    /\ call' = [op |-> "parallel", task |-> "none", doc |-> d, priority |-> p]
    /\ ncalls' = ncalls + 1
    /\ worker' = [t \in Tasks |-> [IdleWorker EXCEPT !.pc = "begin"]]
    /\ requests' = [t \in Tasks |-> <<>>]
    /\ parallel_results' = [t \in Tasks |-> NoResult]
    /\ prior' = NoPrior
    /\ UNCHANGED <<unit, models, document_type_cache, consensus_results>>

\* a future has completed and the as_completed loop has not stored its entry
PendingCollection ==
    /\ call.op = "parallel"
    /\ \E t \in Tasks : worker[t].pc \in {"done", "raised"} /\ parallel_results[t] = NoResult

\* faulty variant: the placeholder is stored for the futures that succeeded
CollectResult_Swapped(w) == IF w.pc = "raised" THEN w.ret ELSE ErrorResult

\* faulty variant: a future that raised leaves its entry unset
CollectResult_DropFailed(w) == IF w.pc = "raised" THEN NoResult ELSE w.ret

\* the entry extract_parallel stores for a completed future
CollectResult(w) == IF w.pc = "raised" THEN ErrorResult ELSE w.ret

\* one round of the as_completed loop
Collect(t) ==
    /\ call.op = "parallel"
    /\ worker[t].pc \in {"done", "raised"}
    /\ parallel_results[t] = NoResult
    /\ parallel_results' = [parallel_results EXCEPT ![t] = CollectResult(worker[t])]
    /\ UNCHANGED <<unit, models, document_type_cache, call, ncalls, worker, requests,
                   consensus_results, prior>>

\* faulty variant: extract_parallel returns once one future has been collected
ReturnParallel_Early ==
    /\ call.op = "parallel"
    /\ \E t \in Tasks : parallel_results[t] # NoResult
    /\ call' = IdleCall
    /\ worker' = [t \in Tasks |-> IdleWorker]
    /\ UNCHANGED <<unit, models, document_type_cache, ncalls, requests, parallel_results,
                   consensus_results, prior>>

\* the with block has ended and the loop is exhausted: return results
ReturnParallel ==
    /\ call.op = "parallel"
    /\ \A t \in Tasks : parallel_results[t] # NoResult
    /\ call' = IdleCall
    /\ worker' = [t \in Tasks |-> IdleWorker]
    /\ UNCHANGED <<unit, models, document_type_cache, ncalls, requests, parallel_results,
                   consensus_results, prior>>

\* a pipeline is at a step that reads and writes only its own locals (the
\* end of a request), or only the document-type cache, which the pipelines of
\* one fan-out all fill with the same entry
PendingLocal ==
    /\ call.op = "parallel"
    /\ \E t \in Tasks : worker[t].pc \in {"begin", "wait"}

\* The pipelines share the registry alone: every interleaving of their
\* get_model_config calls and payload reads is taken.  The steps that commute
\* with every step of the other threads (storing a completed future's entry,
\* classifying, ending a request) are taken first.
NextParallel ==
    \/ \E d \in ParallelDocuments, p \in ParallelPriorities : CallParallel(d, p)
    \/ \E t \in Tasks : ~PendingCollection /\ Begin(t)
    \/ \E t \in Tasks : ~PendingCollection /\ ~PendingLocal /\ GetConfig(t)
    \/ \E t \in Tasks : ~PendingCollection /\ ~PendingLocal /\ Send(t)
    \/ \E t \in Tasks : ~PendingCollection /\ Receive(t)
    \/ \E t \in Tasks : Collect(t)
    \/ ReturnParallel

SpecParallel == Init /\ [][NextParallel]_vars

\* the steps of the pool thread that runs task t
WorkerStep(t) ==
    \/ ~PendingCollection /\ Begin(t)
    \/ ~PendingCollection /\ ~PendingLocal /\ GetConfig(t)
    \/ ~PendingCollection /\ ~PendingLocal /\ Send(t)
    \/ ~PendingCollection /\ Receive(t)

\* The fan-out with its scheduling: every pool thread that can take a step
\* eventually takes one (four workers for four tasks, each request returns
\* or fails within its timeout), and the calling thread runs its
\* as_completed loop and its return.
SpecParallelFair ==
    /\ Init
    /\ [][NextParallel]_vars
    /\ \A t \in Tasks : WF_vars(WorkerStep(t))
    /\ \A t \in Tasks : WF_vars(Collect(t))
    /\ WF_vars(ReturnParallel)

(***************************************************************************)
(* extract_with_consensus                                                   *)
(***************************************************************************)
CallConsensus(t, d) ==
    /\ call.op = "idle"
    /\ ncalls < MaxCalls
    /\ call' = [op |-> "consensus", task |-> t, doc |-> d, priority |-> "balanced"]
    /\ ncalls' = ncalls + 1
    /\ worker' = [worker EXCEPT ![t] = [IdleWorker EXCEPT !.pc = "begin"]]
    /\ requests' = [x \in Tasks |-> <<>>]
    /\ consensus_results' = <<>>
    /\ prior' = NoPrior
    /\ UNCHANGED <<unit, models, document_type_cache, parallel_results>>

\* doc_type = detect_document_type(text_segments); the loop starts at models[0]
ConsensusBegin(t) ==
    /\ call.op = "consensus"
    /\ worker[t].pc = "begin"
    /\ LET dt == detect_document_type(document_type_cache, call.doc)
       IN  /\ document_type_cache' = [document_type_cache EXCEPT ![call.doc.prefix] = dt]
           /\ worker' = [worker EXCEPT ![t] =
                  [@ EXCEPT !.pc = "config", !.doc_type = dt, !.pass = 1,
                            !.model_name = ConsensusModels[1]]]
    /\ UNCHANGED <<unit, models, call, ncalls, requests, parallel_results, consensus_results, prior>>

\* the results list after the request of the current model has ended: an
\* exception is caught and logged, a result is appended
ConsensusAppend(t, w, results, outcome, latency) ==
    IF outcome.kind = "raise" THEN results
    ELSE LET text == make_ollama_request(outcome)
         IN  Append(results, ExtractionResult(text, estimate_confidence(text, t),
                                              w.model_name, latency))

\* the end of a request in the consensus loop; after the last model the best
\* result is picked and its model_used is overwritten in place
ConsensusReceive(t) ==
    /\ call.op = "consensus"
    /\ worker[t].pc = "wait"
    /\ \E outcome \in Outcomes(call.op), latency \in ReplyLatencies(call.op) :
         LET results == ConsensusAppend(t, worker[t], consensus_results, outcome, latency)
         IN  IF worker[t].pass < Len(ConsensusModels)
             THEN /\ consensus_results' = results
                  /\ worker' = [worker EXCEPT ![t] =
                         [@ EXCEPT !.pc = "config", !.pass = @ + 1,
                                   !.model_name = ConsensusModels[worker[t].pass + 1]]]
             ELSE IF results = <<>>
             THEN /\ consensus_results' = results
                  /\ worker' = [worker EXCEPT ![t] = [@ EXCEPT !.pc = "done", !.ret = ConsensusFailed]]
             ELSE LET best == ConsensusPick(t, results)
                      tagged == [results[best] EXCEPT !.model_used = ConsensusTag(@)]
                  IN  /\ consensus_results' = [results EXCEPT ![best] = tagged]
                      /\ worker' = [worker EXCEPT ![t] = [@ EXCEPT !.pc = "done", !.ret = tagged]]
    /\ UNCHANGED <<unit, models, document_type_cache, call, ncalls, requests, parallel_results, prior>>

ReturnConsensus ==
    /\ call.op = "consensus"
    /\ worker[call.task].pc = "done"
    /\ call' = IdleCall
    /\ worker' = [t \in Tasks |-> IdleWorker]
    /\ UNCHANGED <<unit, models, document_type_cache, ncalls, requests, parallel_results,
                   consensus_results, prior>>

NextConsensus ==
    \/ \E t \in Tasks, d \in Documents : CallConsensus(t, d)
    \/ \E t \in Tasks : ConsensusBegin(t)
    \/ \E t \in Tasks : GetConfig(t)
    \/ \E t \in Tasks : Send(t)
    \/ \E t \in Tasks : ConsensusReceive(t)
    \/ ReturnConsensus

SpecConsensus == Init /\ [][NextConsensus]_vars

(***************************************************************************)
(* extract_single called again with the arguments of the call that has just *)
(* completed; prior keeps what that call returned                           *)
(***************************************************************************)

\* sample documents of the repeated call
WarmDocuments == {d \in Documents : d.name \in {"letter", "newsletter"}}

RepeatSingle ==
    /\ call.op = "single"
    /\ worker[call.task].pc = "done"
    /\ prior = NoPrior
    /\ ncalls < MaxCalls
    /\ ncalls' = ncalls + 1
    /\ prior' = [task |-> call.task, result |-> worker[call.task].ret]
    /\ worker' = [worker EXCEPT ![call.task] = [IdleWorker EXCEPT !.pc = "begin"]]
    /\ requests' = [x \in Tasks |-> <<>>]
    /\ UNCHANGED <<unit, models, document_type_cache, call, parallel_results, consensus_results>>

NextWarm ==
    \/ \E t \in Tasks, d \in WarmDocuments : CallSingle(t, d, "balanced")
    \/ RepeatSingle
    \/ \E t \in Tasks : Begin(t)
    \/ \E t \in Tasks : GetConfig(t)
    \/ \E t \in Tasks : Send(t)
    \/ \E t \in Tasks : Receive(t)
    \/ ReturnSingle

SpecWarm == Init /\ [][NextWarm]_vars

(***************************************************************************)
(* Methods called on their own.  unit keeps the arguments of the latest     *)
(* call and what it returned.                                               *)
(***************************************************************************)

\* model_manager.detect_document_type(text_segments)
DetectDocumentType(d) ==
    /\ call.op = "idle"
    /\ ncalls < MaxCalls
    /\ ncalls' = ncalls + 1
    /\ LET dt == detect_document_type(document_type_cache, d)
       IN  /\ document_type_cache' = [document_type_cache EXCEPT ![d.prefix] = dt]
           /\ unit' = [op |-> "detect_document_type", doc |-> d,
                       fresh |-> document_type_cache[d.prefix] = "none", ret |-> dt]
    /\ UNCHANGED <<models, call, worker, requests, parallel_results, consensus_results, prior>>

\* extractor._estimate_confidence(result, task, text_segments)
EstimateConfidence(result, task, full_text) ==
    /\ call.op = "idle"
    /\ unit' = [op |-> "estimate_confidence", result |-> result, task |-> task,
                full_text |-> full_text,
                ret |-> estimate_confidence(Features(result, full_text), task)]
    /\ UNCHANGED <<models, document_type_cache, call, ncalls, worker, requests,
                   parallel_results, consensus_results, prior>>

NextEstimate ==
    \E result \in RawTexts, task \in Tasks, full_text \in SourceTexts :
        EstimateConfidence(result, task, full_text)

SpecEstimate == Init /\ [][NextEstimate]_vars

(***************************************************************************)
(* The inference client, _make_ollama_request, request by request.  One     *)
(* POST ends in a connection error, in a timeout, or in a response with a   *)
(* status code and a body.                                                  *)
(***************************************************************************)

Whitespace == {" ", "\n", "\t"}

\* str.strip()
Strip(cs) ==
    LET kept == {i \in 1..Len(cs) : cs[i] \notin Whitespace}
    IN  IF kept = {} THEN <<>>
        ELSE SubSeq(cs, CHOOSE i \in kept : \A j \in kept : i <= j,
                        CHOOSE i \in kept : \A j \in kept : j <= i)

\* sample status codes of a response
StatusCodes == {200, 404, 429, 500, 503}

\* sample "response" fields of a JSON object body
ResponseTexts ==
    { <<>>,
      <<" ", "N", "/", "A", "\n">>,
      <<"1", "9", "8", "6">>,
      <<" ", " ">>,
      <<"I", "s", "s", "u", "e", " ", "1", "2", " ">> }

\* sample bodies: a JSON object with a "response" string, a JSON object
\* without that field, a JSON object whose "response" is null, a JSON array,
\* and a body that is not JSON
Bodies ==
    [json : {"object"}, response : ResponseTexts]
        \cup {[json |-> j, response |-> <<>>] : j \in {"no_field", "null_field", "array", "not_json"}}

HttpOutcomes ==
    {[kind |-> k, code |-> 0, body |-> [json |-> "none", response |-> <<>>]] :
         k \in {"connection_error", "timeout"}}
        \cup [kind : {"response"}, code : StatusCodes, body : Bodies]

NoHttp == [kind |-> "none", code |-> 0, body |-> [json |-> "none", response |-> <<>>]]

\* sample clock readings at the start of a request
StartTimes == {0, 5}

\* faulty variant: only server errors raise
RaisesForStatus_ServerOnly(code) == 500 <= code /\ code < 600

\* response.raise_for_status(): HTTPError for a 4xx or 5xx status
RaisesForStatus(code) == 400 <= code /\ code < 600

\* The ways the try block of _make_ollama_request can end for one outcome of
\* the POST: "returned" with a text, or "raised".  requests.post raises a
\* RequestException for a connection error or a timeout, raise_for_status
\* for a 4xx/5xx status: both are caught.  response.json() of a body that is
\* not JSON raises an exception that is a RequestException in some releases
\* of the requests library and a plain ValueError in others.  result.get of
\* an array and None.strip() raise AttributeError, which is not caught.
ClientResults(http) ==
    IF http.kind \in {"connection_error", "timeout"} THEN {[pc |-> "returned", text |-> <<>>]}
    ELSE IF RaisesForStatus(http.code) THEN {[pc |-> "returned", text |-> <<>>]}
    ELSE CASE http.body.json = "object" -> {[pc |-> "returned", text |-> Strip(http.body.response)]}
           [] http.body.json = "no_field" -> {[pc |-> "returned", text |-> <<>>]}
           [] http.body.json = "not_json" ->
                  {[pc |-> "returned", text |-> <<>>], [pc |-> "raised", text |-> <<>>]}
           [] OTHER -> {[pc |-> "raised", text |-> <<>>]}

\* _make_ollama_request up to requests.post: start_time is read, the payload
\* is built and posted once
ClientPost(model_name, start_time) ==
    /\ call.op = "idle"
    /\ unit.op = "make_ollama_request" => unit.pc # "posted"
    /\ unit' = [op |-> "make_ollama_request", model_name |-> model_name, pc |-> "posted",
                posts |-> 1, start_time |-> start_time, end_time |-> start_time,
                http |-> NoHttp, text |-> <<>>, latency |-> 0]
    /\ UNCHANGED <<models, document_type_cache, call, ncalls, worker, requests,
                   parallel_results, consensus_results, prior>>

\* the POST ends after elapsed ticks and _make_ollama_request returns or raises
ClientRespond(http, elapsed) ==
    /\ unit.op = "make_ollama_request"
    /\ unit.pc = "posted"
    /\ \E r \in ClientResults(http) :
           unit' = [unit EXCEPT !.pc = r.pc, !.http = http, !.text = r.text,
                                !.end_time = unit.start_time + elapsed,
                                !.latency = IF r.pc = "returned"
                                            THEN (unit.start_time + elapsed) - unit.start_time
                                            ELSE 0]
    /\ UNCHANGED <<models, document_type_cache, call, ncalls, worker, requests,
                   parallel_results, consensus_results, prior>>

NextClient ==
    \/ \E model_name \in ModelNames, start_time \in StartTimes : ClientPost(model_name, start_time)
    \/ \E http \in HttpOutcomes, elapsed \in Latencies : ClientRespond(http, elapsed)

SpecClient == Init /\ [][NextClient]_vars

\* model_manager.get_model_config(model_name, task): the object returned is
\* the registry entry itself, after the adjustment
GetModelConfig(model_name, task) ==
    /\ call.op = "idle"
    /\ models' = get_model_config(models, model_name, task)
    /\ unit' = [op |-> "get_model_config", model_name |-> model_name, task |-> task,
                existing |-> models[model_name], ret |-> models'[model_name]]
    /\ UNCHANGED <<document_type_cache, call, ncalls, worker, requests,
                   parallel_results, consensus_results, prior>>

NextConfig == \E model_name \in ModelNames, task \in Tasks : GetModelConfig(model_name, task)

SpecConfig == Init /\ [][NextConfig]_vars

\* sample text qualities, in hundredths
SampleQualities == {0, 50, 69, 70, 97, 100}

\* model_manager.select_optimal_model(task, doc_type, text_quality, priority)
SelectOptimalModel(task, doc_type, text_quality, priority) ==
    /\ call.op = "idle"
    /\ unit' = [op |-> "select_optimal_model", task |-> task, doc_type |-> doc_type,
                text_quality |-> text_quality, priority |-> priority,
                ret |-> select_optimal_model(task, doc_type, text_quality, priority)]
    /\ UNCHANGED <<models, document_type_cache, call, ncalls, worker, requests,
                   parallel_results, consensus_results, prior>>

NextSelect ==
    \E task \in Tasks, doc_type \in DocumentTypes, q \in SampleQualities, priority \in Priorities :
        SelectOptimalModel(task, doc_type, F(q), priority)

SpecSelect == Init /\ [][NextSelect]_vars

\* model_manager.create_enhanced_prompt called on its own
CreateEnhancedPrompt(task, doc_type, text_segments, examples) ==
    /\ call.op = "idle"
    /\ unit' = [op |-> "create_enhanced_prompt", task |-> task, doc_type |-> doc_type,
                text_segments |-> text_segments, examples |-> examples,
                ret |-> create_enhanced_prompt(task, doc_type, text_segments, examples)]
    /\ UNCHANGED <<models, document_type_cache, call, ncalls, worker, requests,
                   parallel_results, consensus_results, prior>>

\* _extract_with_model up to the call of _make_ollama_request: the prompt sent
BuildPrompt(task, doc_type, text_segments) ==
    /\ call.op = "idle"
    /\ unit' = [op |-> "extract_with_model", task |-> task, doc_type |-> doc_type,
                text_segments |-> text_segments,
                prompt |-> ExtractionPrompt(task, doc_type, text_segments)]
    /\ UNCHANGED <<models, document_type_cache, call, ncalls, worker, requests,
                   parallel_results, consensus_results, prior>>

NextPrompt ==
    \/ \E task \in Tasks, doc_type \in DocumentTypes, text_segments \in SampleSegments :
           \E examples \in {<<>>, TrainingExamples(task)} :
               CreateEnhancedPrompt(task, doc_type, text_segments, examples)
    \/ \E task \in Tasks, doc_type \in DocumentTypes, text_segments \in SampleSegments :
           BuildPrompt(task, doc_type, text_segments)

SpecPrompt == Init /\ [][NextPrompt]_vars

NextClassify == \E d \in ClassifierDocuments : DetectDocumentType(d)

SpecClassify == Init /\ [][NextClassify]_vars

(***************************************************************************)
(* Properties                                                               *)
(***************************************************************************)

\* the pipeline of task t has ended, by returning or by raising
Ended(t) == worker[t].pc \in {"done", "raised"}

\* extract_single is running task t on its own and has made its first result
SingleWithFirst(t) ==
    /\ call.op = "single"
    /\ call.task = t
    /\ Ended(t)
    /\ worker[t].first_result # NoResult

\* C1: get_model_config never changes the registry: whatever calls were made,
\* the temperature stored for each model is the one set by _initialize_models.
C1_RegistryUnchanged ==
    \A m \in ModelNames : models[m] = InitialTemperature(m)

\* every future of the fan-out has been collected
AllCollected ==
    /\ call.op = "parallel"
    /\ \A t \in Tasks : parallel_results[t] # NoResult

\* C2: fan-out isolation: when extract_parallel has collected its four
\* futures, a task whose pipeline raised has the placeholder ("", 0.0,
\* "error") and every other task has ended normally and has exactly the
\* result its own pipeline returned, a result of a registry model.
C2_FanOutIsolation ==
    AllCollected =>
        \A t \in Tasks :
            IF worker[t].pc = "raised"
            THEN /\ parallel_results[t].value = EmptyText
                 /\ parallel_results[t].confidence = F(0)
                 /\ parallel_results[t].model_used = "error"
            ELSE /\ worker[t].pc = "done"
                 /\ parallel_results[t] = worker[t].ret
                 /\ parallel_results[t].model_used \in ModelNames

\* Description raised, the three other tasks returned results of their own
C2_Witness ==
    /\ AllCollected
    /\ worker["description"].pc = "raised"
    /\ parallel_results["description"].model_used = "error"
    /\ \A t \in Tasks \ {"description"} :
           /\ worker[t].pc = "done"
           /\ parallel_results[t].value.s = "2021-03-05"

\* C3: escalation trigger: an extract_single call whose first pass scored
\* below 0.6 has run a second pass and issued exactly two requests by the
\* time it ends, for every task and document type.
C3_EscalationTrigger ==
    \A t \in Tasks :
        (SingleWithFirst(t) /\ FLt(worker[t].first_result.confidence, F(60)))
            => (worker[t].pass = 2 /\ Len(requests[t]) = 2)

\* a first pass of confidence 0.5 was followed by a second request
C3_Witness ==
    \E t \in Tasks :
        /\ SingleWithFirst(t)
        /\ worker[t].pc = "done"
        /\ worker[t].first_result.confidence = F(50)
        /\ Len(requests[t]) = 2

\* the escalation rule as the specification words it
C4_Escalate(task, confidence, doc_type) ==
    \/ FLt(confidence, F(60))
    \/ doc_type \in {"newsletter", "report"} /\ FLt(confidence, F(80))
    \/ task = "description" /\ FLt(confidence, F(75))

\* C4: the second pass is run exactly when confidence < 0.6, or the document
\* is a newsletter or report and confidence < 0.8, or the task is Description
\* and confidence < 0.75; otherwise the call returns after exactly one request.
C4_EscalationDecision ==
    \A t \in Tasks :
        SingleWithFirst(t) =>
            LET escalate == C4_Escalate(t, worker[t].first_result.confidence, worker[t].doc_type)
            IN  /\ (worker[t].pass = 2) <=> escalate
                /\ ~escalate => (worker[t].pc = "done" /\ Len(requests[t]) = 1)
                /\ escalate => Len(requests[t]) = 2

\* a report scored in [0.6, 0.8) by a task other than Description escalated
C4_Witness ==
    \E t \in Tasks \ {"description"} :
        /\ SingleWithFirst(t)
        /\ worker[t].doc_type = "report"
        /\ ~FLt(worker[t].first_result.confidence, F(60))
        /\ FLt(worker[t].first_result.confidence, F(80))
        /\ worker[t].pass = 2

\* C5: after an escalation the call returns the second-pass result only if
\* its confidence is strictly higher than the first pass's; on a tie or a
\* lower second confidence it returns the first-pass result.
C5_KeepHigherConfidence ==
    \A t \in Tasks :
        (call.op = "single" /\ worker[t].pc = "done" /\ worker[t].pass = 2) =>
            worker[t].ret =
                IF FLt(worker[t].first_result.confidence, worker[t].second_result.confidence)
                THEN worker[t].second_result
                ELSE worker[t].first_result

\* a tie: both passes scored the same, and the first-pass result was returned
C5_Witness ==
    \E t \in Tasks :
        /\ call.op = "single"
        /\ worker[t].pc = "done"
        /\ worker[t].pass = 2
        /\ worker[t].second_result.confidence = worker[t].first_result.confidence
        /\ worker[t].second_result # worker[t].first_result
        /\ worker[t].ret = worker[t].first_result

\* C6: the second pass never uses the model of the first pass, whichever
\* model the selector returned: the model chosen for pass two differs from
\* the one that produced the first result, and so do the two requests.
C6_SecondModelDiffers ==
    \A t \in Tasks :
        (call.op = "single" /\ worker[t].pass = 2) =>
            /\ worker[t].model_name # worker[t].first_result.model_used
            /\ worker[t].model_name \in ModelNames
            /\ Len(requests[t]) = 2 => requests[t][1].model # requests[t][2].model

\* the selector returned the high-accuracy model and the call escalated
C6_Witness ==
    \E t \in Tasks :
        /\ call.op = "single"
        /\ worker[t].pass = 2
        /\ worker[t].first_result.model_used = "llama3.1:70b"
        /\ Len(requests[t]) = 2

\* consensus has ended for task t with a result from each of the two models
ConsensusOfTwo(t) ==
    /\ call.op = "consensus"
    /\ call.task = t
    /\ worker[t].pc = "done"
    /\ Len(consensus_results) = 2

\* |a - b| < 0.2 of the two stored confidences, in exact arithmetic
WithinTwoTenths(a, b) ==
    LET hi == IF FLt(a, b) THEN b ELSE a
        lo == IF FLt(a, b) THEN a ELSE b
    IN  \/ hi.h - lo.h < 20
        \/ hi.h - lo.h = 20 /\ hi.e - lo.e < 0

\* C7: consensus tie-break: for Title, when the two confidences differ by
\* less than 0.2 and the values differ, the value selected is the shorter of
\* the two even if its confidence is the lower; in every other case (another
\* task, a difference of 0.2 or more, equal values) the result selected has
\* the higher confidence.  The selected result is one of the two.
C7_ConsensusTieBreak ==
    \A t \in Tasks :
        ConsensusOfTwo(t) =>
            LET r1 == consensus_results[1]
                r2 == consensus_results[2]
                sel == worker[t].ret
            IN  /\ \E r \in {r1, r2} : sel = r
                /\ IF t = "title" /\ WithinTwoTenths(r1.confidence, r2.confidence)
                      /\ r1.value # r2.value
                   THEN /\ sel.value.len <= r1.value.len
                        /\ sel.value.len <= r2.value.len
                   ELSE /\ FLe(r1.confidence, sel.confidence)
                        /\ FLe(r2.confidence, sel.confidence)

\* a Title of length 8 and lower confidence was preferred to one of length 30
C7_Witness ==
    /\ ConsensusOfTwo("title")
    /\ consensus_results[1].value.len = 8
    /\ consensus_results[2].value.len = 30
    /\ FLt(consensus_results[1].confidence, consensus_results[2].confidence)
    /\ worker["title"].ret.value = consensus_results[1].value

\* the consensus wrappers around the names of the models that task t's
\* requests went to
RequestedTags(t) ==
    {"consensus(" \o requests[t][i].model \o ")" : i \in 1..Len(requests[t])}

C9_CacheIdempotence ==
    \A t \in Tasks :
        (call.op = "single" /\ call.task = t /\ prior # NoPrior /\ Ended(t)) =>
            /\ worker[t].pc = "done"
            /\ worker[t].ret = prior.result
            /\ requests[t] = <<>>

\* C10: pre-extractor precedence: for Date on a text holding 2021-03-05 the
\* call returns that date with confidence 0.9 and the backend receives no
\* request for the task.
C10_PreExtractorPrecedence ==
    \A t \in Tasks :
        (call.op = "single" /\ call.task = t /\ t = "date" /\ Ended(t)) =>
            /\ worker[t].pc = "done"
            /\ worker[t].ret.value.s = call.doc.iso_date
            /\ worker[t].ret.confidence = F(90)
            /\ requests[t] = <<>>

\* C11: classifier priority: a text whose key is not in the cache is
\* classified Letter whenever at least 2 letter patterns match, whatever the
\* other scores; Newsletter when fewer than 2 letter and at least 2 newsletter
\* patterns match; Report when only the report score reaches 2; Unknown when
\* no score reaches 2.  A greater score never overrides this order.
C11_ClassifierPriority ==
    (unit.op = "detect_document_type" /\ unit.fresh) =>
        LET d == unit.doc
        IN  /\ d.letter >= 2 => unit.ret = "letter"
            /\ (d.letter < 2 /\ d.newsletter >= 2) => unit.ret = "newsletter"
            /\ (d.letter < 2 /\ d.newsletter < 2 /\ d.report >= 2) => unit.ret = "report"
            /\ (d.letter < 2 /\ d.newsletter < 2 /\ d.report < 2) => unit.ret = "unknown"

\* 2 letter patterns against 7 newsletter and 6 report patterns: Letter
C11_Witness ==
    /\ unit.op = "detect_document_type"
    /\ unit.fresh
    /\ unit.doc.letter = 2
    /\ unit.doc.newsletter = NumNewsletterPatterns
    /\ unit.doc.report = NumReportPatterns
    /\ unit.ret = "letter"

\* the upper-case form of a lower-case letter
C12_Upper(c) ==
    IF \E i \in 1..Len(LowerLetters) : LowerLetters[i] = c
    THEN UpperLetters[CHOOSE i \in 1..Len(LowerLetters) : LowerLetters[i] = c]
    ELSE c

\* raw is the empty string or spells "no", "none", "not found" or "n/a",
\* each letter in either case
C12_NoAnswer(raw) ==
    \/ raw = <<>>
    \/ \E lit \in {<<"n", "o">>, <<"n", "o", "n", "e">>, <<"n", "/", "a">>,
                   <<"n", "o", "t", " ", "f", "o", "u", "n", "d">>} :
           /\ Len(raw) = Len(lit)
           /\ \A i \in 1..Len(lit) : raw[i] \in {lit[i], C12_Upper(lit[i])}

\* C12: confidence floor: for a result that is empty or, in any letter case,
\* one of "no", "none", "not found", "n/a", _estimate_confidence returns
\* exactly 0.1, for every task and every source text.
C12_ConfidenceFloor ==
    (unit.op = "estimate_confidence" /\ C12_NoAnswer(unit.result)) => unit.ret = F(10)

\* "N/A" as a Title, whose first letter is upper case, scored 0.1
C12_Witness ==
    /\ unit.op = "estimate_confidence"
    /\ unit.result = <<"N", "/", "A">>
    /\ unit.task = "title"
    /\ unit.ret = F(10)

\* a transport failure: backend unreachable, timeout, or a status outside 2xx
C13_TransportFailure(http) ==
    \/ http.kind \in {"connection_error", "timeout"}
    \/ http.kind = "response" /\ ~(200 <= http.code /\ http.code <= 299)

C14_WellFormed(r) ==
    /\ r.value \in Texts
    /\ FLe(F(0), r.confidence)
    /\ FLe(r.confidence, F(100))
    /\ r.model_used \in ModelNames \cup {"error"}
    /\ r.processing_time >= 0

\* C14: whatever transport and response-parsing failures the backend shows,
\* an extract_single call ends by returning a well-formed ExtractionResult
\* and never lets an error reach its caller.
C14_NeverPropagates ==
    \A t \in Tasks :
        (call.op = "single" /\ call.task = t /\ Ended(t)) =>
            /\ worker[t].pc = "done"
            /\ C14_WellFormed(worker[t].ret)

\* C20: a generate request answered 429 or 5xx is retried: the client has
\* posted at least twice before it returns the empty string.
C20_RetriesOn429And5xx ==
    (/\ unit.op = "make_ollama_request"
     /\ unit.pc # "posted"
     /\ unit.http.kind = "response"
     /\ (unit.http.code = 429 \/ (500 <= unit.http.code /\ unit.http.code < 600))) =>
        /\ unit.posts >= 2
        /\ unit.pc = "returned"
        /\ unit.text = <<>>

\* C15: get_model_config(model, task) returns a profile whose temperature is
\* min(existing, 0.2) for Date and VolumeIssue, max(existing, 0.5) for
\* Description and the existing temperature for Title, existing being the
\* temperature of the model's registry entry when the call is made.
C15_ConfigTemperature ==
    unit.op = "get_model_config" =>
        LET existing == unit.existing
        IN  /\ unit.task \in {"date", "volume_issue"} =>
                   unit.ret = IF FLt(existing, F(20)) THEN existing ELSE F(20)
            /\ unit.task = "description" =>
                   unit.ret = IF FLt(F(50), existing) THEN existing ELSE F(50)
            /\ unit.task = "title" => unit.ret = existing

\* a Date call on the fast model, whose entry holds 0.1: 0.1 is returned
C15_Witness ==
    /\ unit.op = "get_model_config"
    /\ unit.task = "date"
    /\ unit.model_name = "llama3.1:8b"
    /\ unit.existing = F(10)
    /\ unit.ret = F(10)

\* C16: whenever text quality is below 0.7 the selector returns
\* granite3.2-vision, for every task, document type and priority.
C16_LowQualityForcesRobust ==
    (unit.op = "select_optimal_model" /\ FLt(unit.text_quality, F(70))) =>
        unit.ret = "granite3.2-vision"

\* a document-type override or the low-quality rule applies to the call
C17_Overridden(task, doc_type, text_quality) ==
    \/ doc_type = "newsletter" /\ task \in {"title", "volume_issue"}
    \/ doc_type = "letter" /\ task = "date"
    \/ FLt(text_quality, F(70))

\* the criterion of a priority mode; the mean of both scores is held doubled
C17_Criterion(priority, m) ==
    CASE priority = "speed" -> 2 * SpeedScore(m)
      [] priority = "accuracy" -> 2 * AccuracyScore(m)
      [] priority = "balanced" -> SpeedScore(m) + AccuracyScore(m)

\* C17: when no document-type override and no low-quality rule applies,
\* select_optimal_model returns the candidate of the task's ranked list that
\* maximises speed_score under speed, accuracy_score under accuracy and the
\* mean of both under balanced; of candidates that tie, the earliest.
C17_PrioritySelection ==
    (/\ unit.op = "select_optimal_model"
     /\ ~C17_Overridden(unit.task, unit.doc_type, unit.text_quality)) =>
        LET list == TaskPreferences(unit.task)
        IN  \E i \in 1..Len(list) :
                /\ unit.ret = list[i]
                /\ \A j \in 1..Len(list) :
                       C17_Criterion(unit.priority, list[j]) <= C17_Criterion(unit.priority, list[i])
                /\ \A j \in 1..(i - 1) :
                       C17_Criterion(unit.priority, list[j]) < C17_Criterion(unit.priority, list[i])

\* Title under balanced: the second candidate (mean 8.0) beats the first (7.5)
C17_Witness ==
    /\ unit.op = "select_optimal_model"
    /\ unit.task = "title"
    /\ unit.doc_type = "unknown"
    /\ unit.text_quality = F(97)
    /\ unit.priority = "balanced"
    /\ unit.ret = "llama3.1:8b"

\* C18: fan-in: extract_parallel returns only when each of the four
\* pipelines has completed or failed; the map it returns holds for every task
\* the entry of that task's own pipeline (its result, or the placeholder if
\* it raised), and an entry once stored is not changed by the futures that
\* complete later, so the map does not depend on the completion order.
C18_FanIn ==
    [][/\ (call.op = "parallel" /\ call'.op = "idle") =>
              \A t \in Tasks :
                  /\ Ended(t)
                  /\ parallel_results'[t] # NoResult
                  /\ parallel_results'[t] =
                         IF worker[t].pc = "raised" THEN ErrorResult ELSE worker[t].ret
       /\ \A t \in Tasks :
              (call.op = "parallel" /\ parallel_results[t] # NoResult) =>
                  parallel_results'[t] = parallel_results[t]]_vars

\* extract_parallel has returned a map in which Date failed and the three
\* other tasks hold results of registry models
C18_Witness ==
    /\ call.op = "idle"
    /\ ncalls = 1
    /\ parallel_results["date"] = ErrorResult
    /\ \A t \in Tasks \ {"date"} : parallel_results[t].model_used \in ModelNames

\* C19: an ExtractionResult is immutable once constructed: a result that
\* extract_with_consensus has appended to its results list keeps its value,
\* confidence, model identifier and latency for as long as the list holds it.
C19_ResultsImmutable ==
    [][\A i \in 1..Len(consensus_results) :
           Len(consensus_results') >= i => consensus_results'[i] = consensus_results[i]]_vars

\* the analysed text: the segments with a blank between neighbours
C21_AnalysedText(segs) ==
    [i \in 1..(IF segs = <<>> THEN 0 ELSE 2 * Len(segs) - 1) |->
        IF i % 2 = 1 THEN segs[(i + 1) \div 2] ELSE " "]

\* C21: every prompt handed to the inference client, for every task and
\* document type, ends with the analysed text, placed after the instruction
\* part, followed by the "Extraction:" cue as its final characters.
C21_PromptEnding ==
    unit.op = "extract_with_model" =>
        LET prompt == unit.prompt
            text == C21_AnalysedText(unit.text_segments)
            n == Len(prompt)
            instruction == create_enhanced_prompt(unit.task, unit.doc_type, unit.text_segments,
                                                  TrainingExamples(unit.task))
        IN  /\ n >= Len(instruction) + Len(text) + 3
            /\ prompt[n] = "Extraction:"
            /\ SubSeq(prompt, n - 1 - Len(text), n - 2) = text
            /\ SubSeq(prompt, 1, Len(instruction)) = instruction
            /\ n - 2 - Len(text) = Len(instruction) + 1

\* the Date prompt of a letter of three segments
C21_Witness ==
    /\ unit.op = "extract_with_model"
    /\ unit.task = "date"
    /\ unit.doc_type = "letter"
    /\ Len(unit.text_segments) = 3
    /\ unit.prompt[Len(unit.prompt)] = "Extraction:"
    /\ unit.prompt[Len(unit.prompt) - 2] = "Sincerely yours"

\* C29: for every task and document type, create_enhanced_prompt called
\* without examples returns a non-empty instruction text.
C29_InstructionNonEmpty ==
    (unit.op = "create_enhanced_prompt" /\ unit.examples = <<>>) => unit.ret # <<>>

\* C22: the estimator returns a value in [0, 1] for every result and task:
\* 0.1 for a floor answer, and for any other answer a value from the base 0.5
\* up to 1.0, the increments adding at most 0.5.
C22_ConfidenceRange ==
    unit.op = "estimate_confidence" =>
        /\ FLe(F(0), unit.ret)
        /\ FLe(unit.ret, F(100))
        /\ IF C12_NoAnswer(unit.result)
           THEN unit.ret = F(10)
           ELSE FLe(F(50), unit.ret)

\* a Description of 55 characters and three periods found in the source
\* text collects every increment and scores 1.0
C22_Witness ==
    /\ unit.op = "estimate_confidence"
    /\ unit.task = "description"
    /\ Len(unit.result) = 55
    /\ Contains(Lower(unit.full_text), Lower(unit.result))
    /\ unit.ret = F(100)

\* C23: an empty text from a failed request is scored like an empty answer:
\* when every request fails, extract_single scores each pass 0.1, escalates
\* once, issues exactly two requests and returns the first-pass result: empty
\* value, confidence 0.1, the first selected model, never the placeholder.
C23_FailedIsEmptyAnswer ==
    \A t \in Tasks :
        (call.op = "single" /\ call.task = t /\ Ended(t)) =>
            /\ worker[t].pc = "done"
            /\ worker[t].pass = 2
            /\ Len(requests[t]) = 2
            /\ worker[t].first_result.confidence = F(10)
            /\ worker[t].second_result.confidence = F(10)
            /\ worker[t].ret = worker[t].first_result
            /\ worker[t].ret.value = EmptyText
            /\ worker[t].ret.confidence = F(10)
            /\ worker[t].ret.model_used = requests[t][1].model
            /\ worker[t].ret.model_used # "error"

\* a Description call whose two requests failed returned the first pass of
\* the high-accuracy model
C23_Witness ==
    /\ call.op = "single"
    /\ call.task = "description"
    /\ worker["description"].pc = "done"
    /\ Len(requests["description"]) = 2
    /\ worker["description"].second_result.model_used = "granite3.2-vision"
    /\ worker["description"].ret.model_used = "llama3.1:70b"
    /\ worker["description"].ret.value = EmptyText

\* C24: concurrent classification: when the four workers of a fan-out run
\* detect_document_type on the same text against the shared cache, under
\* every interleaving the workers that have obtained a type have obtained
\* the same one, and once all four have, the cache holds that type under the
\* text's key.
C24_ConcurrentClassification ==
    call.op = "detect_parallel" =>
        /\ \A t, u \in Tasks :
               (worker[t].pc = "done" /\ worker[u].pc = "done") =>
                   worker[t].doc_type = worker[u].doc_type
        /\ (\A t \in Tasks : worker[t].pc = "done") =>
               \A t \in Tasks : document_type_cache[call.doc.prefix] = worker[t].doc_type

\* two workers missed and are about to store, one has stored, one has
\* returned the stored entry: all hold Newsletter
C24_Witness ==
    /\ call.op = "detect_parallel"
    /\ call.doc.name = "newsletter"
    /\ worker["title"].pc = "store"
    /\ worker["date"].pc = "store"
    /\ worker["description"].pc = "done"
    /\ worker["volume_issue"].pc = "done"
    /\ document_type_cache[call.doc.prefix] = "newsletter"
    /\ \A t \in Tasks : worker[t].doc_type = "newsletter"

\* C25: the temperature carried by every inference request depends only on
\* the request's model, its task and the initial profile: min(initial, 0.2)
\* for Date and VolumeIssue, max(initial, 0.5) for Description, initial for
\* Title, whatever get_model_config calls other tasks made before.
C25_RequestTemperature ==
    \A t \in Tasks : \A i \in 1..Len(requests[t]) :
        requests[t][i].temperature =
            CASE t \in {"date", "volume_issue"} ->
                     FMin(InitialTemperature(requests[t][i].model), F(20))
              [] t = "description" ->
                     FMax(InitialTemperature(requests[t][i].model), F(50))
              [] OTHER -> InitialTemperature(requests[t][i].model)

\* C26: the cache never changes a classification: every direct call of
\* detect_document_type returns the type that the pattern scoring of the
\* document's own full text gives with an empty cache (Letter on two letter
\* patterns, else Newsletter on two newsletter patterns, else Report on two
\* report patterns, else Unknown), whatever was classified before.
C26_CacheTransparent ==
    unit.op = "detect_document_type" =>
        unit.ret =
            IF unit.doc.letter >= 2 THEN "letter"
            ELSE IF unit.doc.newsletter >= 2 THEN "newsletter"
            ELSE IF unit.doc.report >= 2 THEN "report"
            ELSE "unknown"

\* C27: the result extract_single returns is one of the results its own
\* passes produced, its confidence is the largest of the pass confidences,
\* and after an escalation it is never below the first pass's confidence.
C27_ReturnsBestPass ==
    \A t \in Tasks :
        (call.op = "single" /\ worker[t].pc = "done") =>
            IF worker[t].pass = 2
            THEN /\ worker[t].ret \in {worker[t].first_result, worker[t].second_result}
                 /\ worker[t].ret.confidence =
                        FMax(worker[t].first_result.confidence,
                             worker[t].second_result.confidence)
                 /\ FLe(worker[t].first_result.confidence, worker[t].ret.confidence)
            ELSE /\ worker[t].ret = worker[t].first_result
                 /\ worker[t].second_result = NoResult

\* the second pass scored strictly lower than the first, and the first-pass
\* result was returned
C27_Witness ==
    \E t \in Tasks :
        /\ call.op = "single"
        /\ worker[t].pc = "done"
        /\ worker[t].pass = 2
        /\ FLt(worker[t].second_result.confidence, worker[t].first_result.confidence)
        /\ worker[t].ret = worker[t].first_result

\* the number of inference requests the four tasks have issued
TotalRequests ==
    Len(requests["title"]) + Len(requests["date"]) + Len(requests["description"])
        + Len(requests["volume_issue"])

\* C28: escalation happens at most once per task invocation: a pipeline of
\* extract_single never issues a third request, it has issued one or two when
\* it ends, whatever the second pass scored, and an extract_parallel call
\* that has all its futures ended, or has returned, issued between 4 and 8.
C28_RequestCount ==
    /\ \A t \in Tasks :
           /\ Len(requests[t]) <= 2
           /\ (call.op = "parallel" /\ Ended(t)) => Len(requests[t]) \in 1..2
    /\ ((call.op = "parallel" /\ \A t \in Tasks : Ended(t)) \/ (call.op = "idle" /\ ncalls = 1)) =>
           /\ \A t \in Tasks : Len(requests[t]) \in 1..2
           /\ TotalRequests \in 4..8

\* every task escalated, the Date task's second pass came back with a
\* confidence under the unconditional threshold, and the call ended with
\* eight requests
C28_Witness ==
    /\ call.op = "parallel"
    /\ \A t \in Tasks : worker[t].pc = "done" /\ worker[t].pass = 2
    /\ FLt(worker["date"].second_result.confidence, F(60))
    /\ TotalRequests = 8

\* C30: the fan-out terminates: with every request returning or failing and
\* the workers scheduled fairly, every extract_parallel call eventually
\* returns a map that holds an entry for each of the four tasks.
C30_FanOutTerminates ==
    (call.op = "parallel") ~>
        (call.op = "idle" /\ ncalls = 1 /\ \A t \in Tasks : parallel_results[t] # NoResult)

\* extract_parallel has returned a map whose four entries are results of
\* registry models, the Date pipeline having ended on its first pass
C30_Witness ==
    /\ call.op = "idle"
    /\ ncalls = 1
    /\ Len(requests["date"]) = 1
    /\ \A t \in Tasks :
           /\ parallel_results[t] # NoResult
           /\ parallel_results[t].model_used \in ModelNames

====
